---- MODULE Spec2Model ----
(***************************************************************************)
(* Evolvatron hyper-parameter sweeps: the two Optuna drivers               *)
(* (optuna_sweep.py, optuna_sweep_rosenbrock.py) evaluate each trial by    *)
(* running the trainer as a child process and turning its outcome into a   *)
(* scalar fitness; monitor_optuna.py polls the same study and prints a     *)
(* summary (counts, best trial, top 5, ETA).                               *)
(*                                                                         *)
(* Floats are fixed-point: a finite value is a whole number of hundredths  *)
(* (59.95 is Fin(5995)); -inf, +inf and nan are values of their own.       *)
(* Text is a sequence of one-character strings; the child's standard       *)
(* output is the text subprocess.run hands back under text=True.           *)
(***************************************************************************)
EXTENDS Integers, Sequences, FiniteSets, TLC

VARIABLES
    script,     \* which driver runs: "evolvion" (optuna_sweep.py) or "rosenbrock"
    n_trials,   \* --n-trials of this run
    n_jobs,     \* --n-jobs of this run
    trials,     \* the study's trial store (study.trials), in trial-number order
    now,        \* wall clock, seconds
    asked,      \* trials started by this study.optimize call
    aborted,    \* study.optimize is unwinding an exception an objective raised
    wpc,        \* per optimizer thread: "idle", "running" (in objective), "returned"
    wtrial,     \* per optimizer thread: the number of the trial it evaluates
    wrun,       \* per optimizer thread: the child run its objective call observed
    wret,       \* per optimizer thread: what objective returned or raised
    sw_pc,      \* the driver's main(): "optimize", "report", "done", "raised"
    report,     \* what the final report printed (NoReport before)
    mon_pc,     \* the monitor's loop: "poll", "sleep" (line 78), "sleep_err" (line 85),
                \* "stopped" (break), "killed" (traceback)
    mon_out,    \* the summary the monitor printed in its current cycle (NoSummary if none)
    mon_event,  \* the monitor's last step: "wake" (also at the start), "retry" (awake
                \* after an error), "ok", "error", "interrupt"
    mswindows,  \* the platform subprocess runs on (subprocess._mswindows)
    child,      \* per trial number: the process subprocess.run started ("dotnet run"):
                \* "none", "running", "exited", "killed"
    desc,       \* per trial number: the program "dotnet run" started in turn:
                \* "none", "running", "exited"
    deadline,   \* per trial number: when the timeout of its subprocess.run expires
    params      \* per optimizer thread: what the trial's suggest_int calls declared
                \* and returned so far

vars == <<script, n_trials, n_jobs, trials, now, asked, aborted, wpc, wtrial, wrun, wret,
          sw_pc, report, mon_pc, mon_out, mon_event,
          mswindows, child, desc, deadline, params>>

\* The state of objective's steps: the sampled parameters and the processes.
objVars == <<mswindows, child, desc, deadline, params>>

(***************************************************************************)
(* Bounds of the model.                                                    *)
(***************************************************************************)
\* Largest --n-trials a run is started with.
MaxTrials == 2
\* Trials an earlier run left in the study (create_study(load_if_exists=True)).
PriorTrials == 10
\* Lines the child writes to standard output before it ends or is killed.
MaxLines == 3
\* --n-jobs values a run is started with.
JobChoices == {1}
\* Wall-clock seconds a child that ends by itself takes.
RunSeconds == 60
\* Seconds the clock advances in one step while a call waits for its child.
TickSeconds == 600

(***************************************************************************)
(* Program constants.                                                      *)
(***************************************************************************)
TIMEOUT_EVOLVION == 600
TIMEOUT_ROSENBROCK == 1200
MONITOR_TARGET == 200
MONITOR_TOP == 5
MONITOR_WINDOW == 10
REPORT_TOP == 10
SEED_PERCENT == 20

Scripts == {"evolvion", "rosenbrock"}

SetMin(S) == CHOOSE x \in S : \A y \in S : x <= y
SetMax(S) == CHOOSE x \in S : \A y \in S : x >= y

(***************************************************************************)
(* Python floats.                                                          *)
(***************************************************************************)
Fin(c) == [k |-> "fin", c |-> c]
NegInf == [k |-> "-inf", c |-> 0]
PosInf == [k |-> "inf", c |-> 0]
NaN == [k |-> "nan", c |-> 0]
\* A trial that has no value yet (t.value is None).
None == [k |-> "none", c |-> 0]

\* a > b on floats: every comparison with nan is false.
Gt(a, b) ==
    CASE a.k = "nan" \/ b.k = "nan" -> FALSE
      [] a.k = "inf" -> b.k # "inf"
      [] a.k = "-inf" -> FALSE
      [] b.k = "inf" -> FALSE
      [] b.k = "-inf" -> TRUE
      [] OTHER -> a.c > b.c

\* a - n for a float a and an int n.
SubInt(a, n) == IF a.k = "fin" THEN Fin(a.c - 100 * n) ELSE a

\* int(a) of a finite float: truncation toward zero.
Trunc(c) == IF c >= 0 THEN c \div 100 ELSE -((-c) \div 100)

(***************************************************************************)
(* Text: str.strip(), str.split('\n'), float(str).                         *)
(***************************************************************************)
Whitespace == {" ", "\n", "\t", "\r"}
Digits == {"0", "1", "2", "3", "4", "5", "6", "7", "8", "9"}

DigitVal(ch) ==
    CASE ch = "0" -> 0 [] ch = "1" -> 1 [] ch = "2" -> 2 [] ch = "3" -> 3
      [] ch = "4" -> 4 [] ch = "5" -> 5 [] ch = "6" -> 6 [] ch = "7" -> 7
      [] ch = "8" -> 8 [] ch = "9" -> 9

\* s.strip(): leading and trailing whitespace removed.
Strip(s) ==
    LET keep == {i \in 1..Len(s) : s[i] \notin Whitespace}
    IN  IF keep = {} THEN <<>> ELSE SubSeq(s, SetMin(keep), SetMax(keep))

\* s.split('\n'): the fields between newlines; never empty ("" splits to [""]).
RECURSIVE Split(_)
Split(s) ==
    LET nl == {i \in 1..Len(s) : s[i] = "\n"}
    IN  IF nl = {} THEN <<s>>
        ELSE <<SubSeq(s, 1, SetMin(nl) - 1)>> \o Split(SubSeq(s, SetMin(nl) + 1, Len(s)))

\* seq[-1]
Last(seq) == seq[Len(seq)]

RECURSIVE NatOf(_)
NatOf(ds) == IF ds = <<>> THEN 0 ELSE 10 * NatOf(SubSeq(ds, 1, Len(ds) - 1)) + DigitVal(Last(ds))

AllDigits(s) == \A i \in 1..Len(s) : s[i] \in Digits

\* The hundredths a fraction's digits stand for (digits past the second are dropped).
Hundredths(fp) ==
    (IF Len(fp) >= 1 THEN 10 * DigitVal(fp[1]) ELSE 0) + (IF Len(fp) >= 2 THEN DigitVal(fp[2]) ELSE 0)

\* float(text): surrounding whitespace ignored; an optional sign; then inf, nan,
\* or decimal digits with at most one point. Anything else raises ValueError.
ParseFloat(text) ==
    LET s == Strip(text)
        signed == s # <<>> /\ s[1] \in {"-", "+"}
        neg == s # <<>> /\ s[1] = "-"
        body == IF signed THEN Tail(s) ELSE s
        dots == {i \in 1..Len(body) : body[i] = "."}
        ip == IF dots = {} THEN body ELSE SubSeq(body, 1, SetMin(dots) - 1)
        fp == IF dots = {} THEN <<>> ELSE SubSeq(body, SetMin(dots) + 1, Len(body))
        mag == 100 * NatOf(ip) + Hundredths(fp)
    IN  CASE body = <<"i", "n", "f">> -> [ok |-> TRUE, val |-> IF neg THEN NegInf ELSE PosInf]
          [] body = <<"n", "a", "n">> -> [ok |-> TRUE, val |-> NaN]
          [] /\ Cardinality(dots) <= 1
             /\ AllDigits(ip) /\ AllDigits(fp)
             /\ Len(ip) + Len(fp) >= 1 -> [ok |-> TRUE, val |-> Fin(IF neg THEN -mag ELSE mag)]
          [] OTHER -> [ok |-> FALSE, val |-> None]

(***************************************************************************)
(* The child process (dotnet run ... name=value ...): what subprocess.run  *)
(* can observe of it.                                                      *)
(***************************************************************************)
\* Lines a trainer run may print: log noise, blank lines, fitness values.
OutputLines ==
    { <<>>,
      <<" ">>,
      <<"g", "e", "n">>,
      <<"5", "9", ".", "9", "5">>,
      <<"-", "0", ".", "3", "7">>,
      <<"n", "a", "n">>,
      <<"i", "n", "f">> }

RECURSIVE JoinLines(_)
JoinLines(ls) == IF ls = <<>> THEN <<>> ELSE Head(ls) \o <<"\n">> \o JoinLines(Tail(ls))

LineSeqs == UNION {[1..n -> OutputLines] : n \in 0..MaxLines}

Timeout(s) == IF s = "evolvion" THEN TIMEOUT_EVOLVION ELSE TIMEOUT_ROSENBROCK

\* One run of the child as subprocess.run(args, capture_output=True, text=True,
\* timeout=..., check=True) sees it: how it ended, the lines it had written by
\* then, how long it took. A child still running at the time limit is killed
\* ("timeout"); "launch" is the executable that cannot be started (OSError).
ChildRuns ==
    [end : {"exit0", "nonzero"}, lines : LineSeqs, elapsed : {RunSeconds}]
        \cup [end : {"timeout"}, lines : LineSeqs,
              elapsed : {TIMEOUT_EVOLVION, TIMEOUT_ROSENBROCK}]
        \cup [end : {"launch"}, lines : {<<>>}, elapsed : {0}]

\* The text of the child's standard output, each line ended by a newline.
Stdout(run) == JoinLines(run.lines)

(***************************************************************************)
(* objective(trial): the try block and its three handlers.                 *)
(***************************************************************************)
Returned(v, o, a) == [kind |-> "float", val |-> v, outcome |-> o, attr |-> a]
Raised(o) == [kind |-> "raise", val |-> None, outcome |-> o, attr |-> None]

\* The last line taken without strip(): the text after the final newline.
FitnessStrNoStrip(stdout) == Last(Split(stdout))

\* fitness_str = result.stdout.strip().split('\n')[-1]
FitnessStr(stdout) == Last(Split(Strip(stdout)))

\* An objective without the CalledProcessError handler: a non-zero exit escapes.
ObjectiveUncaught(run) ==
    LET parsed == ParseFloat(FitnessStr(Stdout(run)))
    IN  CASE run.end = "launch" -> Raised("LaunchError")
          [] run.end = "timeout" -> Returned(NegInf, "Timeout", None)
          [] run.end = "nonzero" -> Raised("ProcessError")
          [] parsed.ok -> Returned(parsed.val, "Success", parsed.val)
          [] OTHER -> Returned(NegInf, "ParseError", None)

\* A handler that answers a non-zero exit from the child's output: check=True left out.
ObjectiveUnchecked(run) ==
    LET parsed == ParseFloat(FitnessStr(Stdout(run)))
    IN  CASE run.end = "launch" -> Raised("LaunchError")
          [] run.end = "timeout" -> Returned(NegInf, "Timeout", None)
          [] parsed.ok -> Returned(parsed.val, "Success", parsed.val)
          [] OTHER -> Returned(NegInf, "ParseError", None)

\* A timeout handler that salvages the output the child had written so far.
ObjectivePartial(run) ==
    LET parsed == ParseFloat(FitnessStr(Stdout(run)))
    IN  CASE run.end = "launch" -> Raised("LaunchError")
          [] run.end = "timeout" /\ parsed.ok -> Returned(parsed.val, "Timeout", None)
          [] run.end = "timeout" -> Returned(NegInf, "Timeout", None)
          [] run.end = "nonzero" -> Returned(NegInf, "ProcessError", None)
          [] parsed.ok -> Returned(parsed.val, "Success", parsed.val)
          [] OTHER -> Returned(NegInf, "ParseError", None)

\* What objective returns (value, outcome kind, the 'fitness' user attribute it
\* set, None if it set none) or raises, for one run of the child.
Objective(run) ==
    LET parsed == ParseFloat(FitnessStr(Stdout(run)))
    IN  CASE run.end = "launch" -> Raised("LaunchError")
          [] run.end = "timeout" -> Returned(NegInf, "Timeout", None)
          [] run.end = "nonzero" -> Returned(NegInf, "ProcessError", None)
          [] parsed.ok -> Returned(parsed.val, "Success", parsed.val)
          [] OTHER -> Returned(NegInf, "ParseError", None)

(***************************************************************************)
(* The study: optuna's trial store and study.optimize, as the drivers use  *)
(* them (direction="maximize", default catch=()).                          *)
(***************************************************************************)
Workers == 1..2

\* A line with a character that is not whitespace.
NonBlank(line) == \E i \in 1..Len(line) : line[i] \notin Whitespace

\* What the model keeps of a child run for the thread that observed it: how it
\* ended, the last non-blank line it had written (<<>> if it wrote none), and
\* whether lines came before that line (led) or blank lines after it (trailed).
RunSeen(run) ==
    LET nb == {i \in 1..Len(run.lines) : NonBlank(run.lines[i])}
    IN  [end |-> run.end,
         last |-> IF nb = {} THEN <<>> ELSE run.lines[SetMax(nb)],
         led |-> nb # {} /\ SetMax(nb) > 1,
         trailed |-> nb # {} /\ SetMax(nb) < Len(run.lines)]

NoRun == [end |-> "none", last |-> <<>>, led |-> FALSE, trailed |-> FALSE]

\* Every child run with what objective makes of it.
Evaluations == {[run |-> RunSeen(r), elapsed |-> r.elapsed, ret |-> Objective(r)] : r \in ChildRuns}
NoReturn == [kind |-> "none", val |-> None, outcome |-> "none", attr |-> None]

\* A trial as study.ask() stores it. outcome is the kind of outcome objective
\* classified the evaluation as ("none" while the trial is in flight): bookkeeping
\* of the model, which no code reads.
NewTrial(num, t) ==
    [number |-> num, state |-> "RUNNING", value |-> None,
     datetime_start |-> t, datetime_complete |-> -1,
     fitness |-> None, outcome |-> "none"]

\* Values of the trials an earlier run of the same study completed.
PriorValue(i) ==
    CASE i % 5 = 0 -> Fin(1000)
      [] i % 5 = 1 -> Fin(5520)
      [] i % 5 = 2 -> Fin(300)
      [] i % 5 = 3 -> Fin(5520)
      [] OTHER -> Fin(9000)

PriorTrial(i) ==
    [number |-> i, state |-> "COMPLETE", value |-> PriorValue(i),
     datetime_start |-> 1000 * i, datetime_complete |-> 1000 * i + 60 + 10 * i,
     fitness |-> PriorValue(i), outcome |-> "Success"]

PriorStore(n) == [i \in 1..n |-> PriorTrial(i - 1)]

(***************************************************************************)
(* Reading the study: completed trials, best trial, decoding, ranking.     *)
(***************************************************************************)
Zero == Fin(0)

\* A filter that keeps only the completed trials with a value above -inf.
CompletedAboveNegInf(ts) == SelectSeq(ts, LAMBDA t : t.state = "COMPLETE" /\ t.value # NegInf)

\* [t for t in trials if t.state == TrialState.COMPLETE]
CompletedTrials(ts) == SelectSeq(ts, LAMBDA t : t.state = "COMPLETE")

\* [t for t in trials if t.state == TrialState.RUNNING]
RunningTrials(ts) == SelectSeq(ts, LAMBDA t : t.state = "RUNNING")

Elems(seq) == {seq[i] : i \in 1..Len(seq)}

\* study.best_trial: a completed trial no other completed trial's value exceeds.
\* Which one, when several share the best value, is the trial store's choice.
\* (With no completed trial it raises ValueError.)
BestTrials(ts) ==
    LET completed == Elems(CompletedTrials(ts))
    IN  {t \in completed : \A u \in completed : ~Gt(u.value, t.value)}

\* int(v): OverflowError on an infinity, ValueError on nan.
PyInt(v) == IF v.k = "fin" THEN [ok |-> TRUE, n |-> Trunc(v.c)] ELSE [ok |-> FALSE, n |-> 0]

Decoded(v, sr) == [ok |-> TRUE, sr |-> sr, af |-> SubInt(v, sr)]
DecodeRaises == [ok |-> FALSE, sr |-> 0, af |-> None]

\* A decode that rounds to the nearest percent instead of truncating.
DecodeRounding(v) ==
    IF Gt(v, Zero)
    THEN IF v.k = "fin" THEN Decoded(v, (v.c + 50) \div 100) ELSE DecodeRaises
    ELSE Decoded(v, 0)

\* monitor_optuna.py: solve_rate = int(best_value) if best_value > 0 else 0;
\* avg_fitness = best_value - solve_rate
MonitorBestDecode(v) ==
    IF Gt(v, Zero)
    THEN IF PyInt(v).ok THEN Decoded(v, PyInt(v).n) ELSE DecodeRaises
    ELSE Decoded(v, 0)

\* monitor_optuna.py, top 5: sr = int(t.value) if t.value > 0 else 0; af = t.value - sr
MonitorTopDecode(v) ==
    IF Gt(v, Zero)
    THEN IF PyInt(v).ok THEN Decoded(v, PyInt(v).n) ELSE DecodeRaises
    ELSE Decoded(v, 0)

\* optuna_sweep_rosenbrock.py, final report: solve_rate_approx, avg_fitness_approx
ReportBestDecode(v) ==
    IF Gt(v, Zero)
    THEN IF PyInt(v).ok THEN Decoded(v, PyInt(v).n) ELSE DecodeRaises
    ELSE Decoded(v, 0)

\* optuna_sweep_rosenbrock.py, top 10: sr = int(t.value) if t.value > 0 else 0; af = t.value - sr
ReportTopDecode(v) ==
    IF Gt(v, Zero)
    THEN IF PyInt(v).ok THEN Decoded(v, PyInt(v).n) ELSE DecodeRaises
    ELSE Decoded(v, 0)

\* The sort key of the report's ranking: t.value if t.value is not None else -inf
ReportKey(t) == IF t.value.k = "none" THEN NegInf ELSE t.value

\* An insertion that puts a position in front of the positions with the same key.
InsertDescUnstable(order, p, keys) ==
    LET notLarger == {j \in 1..Len(order) : ~Gt(keys[order[j]], keys[p])}
        at == IF notLarger = {} THEN Len(order) + 1 ELSE SetMin(notLarger)
    IN  SubSeq(order, 1, at - 1) \o <<p>> \o SubSeq(order, at, Len(order))

\* One insertion of sorted(..., reverse=True), on positions: position p goes
\* before the first position whose key is smaller, so behind every position with
\* the same key (the sort is stable, and reverse=True keeps the original order
\* of equal keys).
InsertDesc(order, p, keys) ==
    LET smaller == {j \in 1..Len(order) : Gt(keys[p], keys[order[j]])}
        at == IF smaller = {} THEN Len(order) + 1 ELSE SetMin(smaller)
    IN  SubSeq(order, 1, at - 1) \o <<p>> \o SubSeq(order, at, Len(order))

\* The positions 1..n of keys in the order sorted(..., reverse=True) gives them.
RECURSIVE OrderDesc(_, _)
OrderDesc(keys, n) ==
    IF n = 0 THEN <<>> ELSE InsertDesc(OrderDesc(keys, n - 1), n, keys)

\* sorted(completed_trials, key=lambda t: t.value, reverse=True)
SortedByValue(ts) ==
    LET order == OrderDesc([i \in 1..Len(ts) |-> ts[i].value], Len(ts))
    IN  [j \in 1..Len(ts) |-> ts[order[j]]]

\* sorted(study.trials, key=lambda t: t.value if t.value is not None else -inf, reverse=True)
SortedByReportKey(ts) ==
    LET order == OrderDesc([i \in 1..Len(ts) |-> ReportKey(ts[i])], Len(ts))
    IN  [j \in 1..Len(ts) |-> ts[order[j]]]

\* seq[:n]
Take(seq, n) == SubSeq(seq, 1, IF Len(seq) < n THEN Len(seq) ELSE n)

\* seq[-n:]
TakeLast(seq, n) == SubSeq(seq, IF Len(seq) < n THEN 1 ELSE Len(seq) - n + 1, Len(seq))

RECURSIVE SumSeq(_)
SumSeq(seq) == IF seq = <<>> THEN 0 ELSE Head(seq) + SumSeq(Tail(seq))

(***************************************************************************)
(* monitor_optuna.py: one pass of the loop body.                           *)
(***************************************************************************)
NoEta ==
    [defined |-> FALSE, n |-> 0, sum |-> 0, remaining |-> 0,
     eta_num |-> 0, eta_den |-> 1, percent |-> 0]

\* The "Calculate progress" block. avg_time is sum / n and eta_seconds is
\* eta_num / eta_den, kept as fractions.
MonitorEta(completed) ==
    IF Len(completed) > 1
    THEN LET recent == TakeLast(completed, MONITOR_WINDOW)
             sum == SumSeq([i \in 1..Len(recent) |->
                               recent[i].datetime_complete - recent[i].datetime_start])
             remaining == MONITOR_TARGET - Len(completed)
         IN  IF Len(recent) > 1
             THEN [defined |-> TRUE, n |-> Len(recent), sum |-> sum,
                   remaining |-> remaining,
                   eta_num |-> remaining * sum, eta_den |-> Len(recent),
                   percent |-> (Len(completed) * 100) \div MONITOR_TARGET]
             ELSE NoEta
    ELSE NoEta

\* One line of the "Top 5 trials" list.
MonitorTopEntry(t) ==
    LET d == MonitorTopDecode(t.value)
    IN  [number |-> t.number, value |-> t.value, ok |-> d.ok, sr |-> d.sr, af |-> d.af]

NoTrial == NewTrial(-1, 0)

NoSummary ==
    [printed |-> FALSE, snap |-> <<>>, completed |-> <<>>, n_running |-> 0, n_total |-> 0,
     has_best |-> FALSE, best_number |-> -1, best_value |-> None, best_ok |-> TRUE,
     solve_rate |-> 0, avg_fitness |-> None, seeds |-> 0, top |-> <<>>, eta |-> NoEta]

\* What one pass prints for the trials ts it loaded, b being what
\* study.best_trial returned (NoTrial when nothing is completed). best_ok and
\* the entries' ok say whether the decode returned (or raised).
MonitorSummary(ts, b) ==
    LET completed == CompletedTrials(ts)
        top == Take(SortedByValue(completed), MONITOR_TOP)
        best == MonitorBestDecode(b.value)
    IN  [printed |-> TRUE,
         snap |-> ts,
         completed |-> [i \in 1..Len(completed) |-> completed[i].number],
         n_running |-> Len(RunningTrials(ts)),
         n_total |-> Len(ts),
         has_best |-> completed # <<>>,
         best_number |-> b.number,
         best_value |-> b.value,
         best_ok |-> IF completed # <<>> THEN best.ok ELSE TRUE,
         solve_rate |-> IF completed # <<>> THEN best.sr ELSE 0,
         avg_fitness |-> IF completed # <<>> THEN best.af ELSE None,
         seeds |-> IF completed # <<>> THEN best.sr \div SEED_PERCENT ELSE 0,
         top |-> IF completed # <<>>
                 THEN [i \in 1..Len(top) |-> MonitorTopEntry(top[i])] ELSE <<>>,
         eta |-> IF completed # <<>> THEN MonitorEta(completed) ELSE NoEta]

\* The pass raises while it prints summary s: a decode of an infinite value
\* (int(inf) is an OverflowError).
SummaryRaises(s) == ~s.best_ok \/ \E i \in 1..Len(s.top) : ~s.top[i].ok

\* An error handler that gives up instead of waiting for the next poll.
AfterErrorStops == "stopped"

\* Where the loop goes when its body raised an Exception: it prints the error
\* and sleeps one interval (lines 83-85), then loops.
AfterError == "sleep_err"

sweepVars == <<script, n_trials, n_jobs, trials, now, asked, aborted, wpc, wtrial,
               wrun, wret, sw_pc, report, objVars>>

\* optuna.load_study or study.trials fails (the store cannot be read).
MonitorLoadError ==
    /\ mon_pc = "poll"
    /\ mon_pc' = AfterError
    /\ mon_out' = NoSummary
    /\ mon_event' = "error"
    /\ UNCHANGED sweepVars

\* The loop body: load the study, print the summary, or raise part-way.
MonitorPoll ==
    /\ mon_pc = "poll"
    /\ \E b \in (IF CompletedTrials(trials) = <<>> THEN {NoTrial} ELSE BestTrials(trials)) :
        LET s == MonitorSummary(trials, b)
        IN  IF SummaryRaises(s)
            THEN /\ mon_pc' = AfterError
                 /\ mon_out' = NoSummary
                 /\ mon_event' = "error"
            ELSE /\ mon_pc' = "sleep"
                 /\ mon_out' = s
                 /\ mon_event' = "ok"
    /\ UNCHANGED sweepVars

\* time.sleep(args.interval) returns, at the end of the body or of the handler.
MonitorWake ==
    /\ mon_pc \in {"sleep", "sleep_err"}
    /\ mon_pc' = "poll"
    /\ mon_out' = NoSummary
    /\ mon_event' = IF mon_pc = "sleep_err" THEN "retry" ELSE "wake"
    /\ UNCHANGED sweepVars

\* Ctrl+C. Inside the try block KeyboardInterrupt is caught and the loop breaks;
\* during the handler's own sleep it leaves main() as a traceback.
MonitorInterrupt ==
    /\ mon_pc \in {"poll", "sleep", "sleep_err"}
    /\ mon_pc' = IF mon_pc = "sleep_err" THEN "killed" ELSE "stopped"
    /\ mon_out' = NoSummary
    /\ mon_event' = "interrupt"
    /\ UNCHANGED sweepVars

(***************************************************************************)
(* The drivers' final report.                                              *)
(***************************************************************************)
NoReport ==
    [printed |-> FALSE, best_number |-> -1, best_value |-> None, decoded |-> FALSE,
     best_ok |-> TRUE, solve_rate |-> 0, avg_fitness |-> None, top |-> <<>>]

\* One entry of the "Top 10 Trials" section of the Rosenbrock report.
ReportTopEntry(t) ==
    LET d == ReportTopDecode(t.value)
    IN  [number |-> t.number, value |-> t.value, ok |-> d.ok, sr |-> d.sr, af |-> d.af]

\* The trials the "Top 10 Trials" loop writes: the first ten of the ranking, those
\* without a value skipped.
ReportTop(ts) ==
    SelectSeq(Take(SortedByReportKey(ts), REPORT_TOP), LAMBDA t : t.value.k # "none")

\* optuna_sweep.py prints the best trial and its value; b is study.best_trial.
EvolvionReport(b) ==
    [printed |-> TRUE, best_number |-> b.number, best_value |-> b.value, decoded |-> FALSE,
     best_ok |-> TRUE, solve_rate |-> 0, avg_fitness |-> None, top |-> <<>>]

\* optuna_sweep_rosenbrock.py also decodes the best value and writes the top 10.
RosenbrockReport(ts, b) ==
    LET best == ReportBestDecode(b.value)
        top == ReportTop(ts)
    IN  [printed |-> TRUE, best_number |-> b.number, best_value |-> b.value,
         decoded |-> TRUE, best_ok |-> best.ok,
         solve_rate |-> best.sr, avg_fitness |-> best.af,
         top |-> [i \in 1..Len(top) |-> ReportTopEntry(top[i])]]

\* Writing report r raises: int(inf) in a decode.
ReportRaises(r) == ~r.best_ok \/ \E i \in 1..Len(r.top) : ~r.top[i].ok

\* main() after study.optimize returned: the results are printed and saved.
\* study.best_trial raises ValueError when no trial is completed.
Report ==
    /\ sw_pc = "report"
    /\ IF CompletedTrials(trials) = <<>>
       THEN sw_pc' = "raised" /\ report' = report
       ELSE \E b \in BestTrials(trials) :
               IF script = "evolvion"
               THEN sw_pc' = "done" /\ report' = EvolvionReport(b)
               ELSE LET r == RosenbrockReport(trials, b)
                    IN  IF ReportRaises(r)
                        THEN sw_pc' = "raised" /\ report' = report
                        ELSE sw_pc' = "done" /\ report' = r
    /\ UNCHANGED <<script, n_trials, n_jobs, trials, now, asked, aborted, wpc, wtrial,
                   wrun, wret, mon_pc, mon_out, mon_event>>
    /\ UNCHANGED objVars

(***************************************************************************)
(* study.optimize(objective, n_trials, n_jobs).                            *)
(***************************************************************************)
\* A free thread takes the next trial of the budget and the store records it
\* as RUNNING.
Ask(w) ==
    /\ sw_pc = "optimize"
    /\ w <= n_jobs
    /\ wpc[w] = "idle"
    /\ ~aborted
    /\ asked < n_trials
    /\ trials' = Append(trials, NewTrial(Len(trials), now))
    /\ asked' = asked + 1
    /\ wpc' = [wpc EXCEPT ![w] = "running"]
    /\ wtrial' = [wtrial EXCEPT ![w] = Len(trials)]
    /\ UNCHANGED <<script, n_trials, n_jobs, now, aborted, wrun, wret, sw_pc, report,
                   mon_pc, mon_out, mon_event>>
    /\ UNCHANGED objVars

\* The thread's call of objective(trial): the child runs, objective classifies
\* the run, sets the 'fitness' attribute on success, and returns or raises.
Run(w) ==
    /\ wpc[w] = "running"
    /\ \E e \in Evaluations :
        LET i == wtrial[w] + 1
        IN  /\ e.run.end = "timeout" => e.elapsed = Timeout(script)
            /\ wrun' = [wrun EXCEPT ![w] = e.run]
            /\ wret' = [wret EXCEPT ![w] = e.ret]
            /\ now' = now + e.elapsed
            /\ trials' = [trials EXCEPT ![i].fitness = e.ret.attr]
    /\ wpc' = [wpc EXCEPT ![w] = "returned"]
    /\ UNCHANGED <<script, n_trials, n_jobs, asked, aborted, wtrial, sw_pc, report,
                   mon_pc, mon_out, mon_event>>

\* objective(trial) as one step, without the detail of its suggest calls and of
\* its child's processes.
Evaluate(w) == Run(w) /\ UNCHANGED objVars

\* What the store records for what objective returned: a float that is not nan
\* completes the trial with that value; nan, or an exception, fails it.
Told(t, r, at) ==
    IF r.kind = "float" /\ r.val.k # "nan"
    THEN [t EXCEPT !.state = "COMPLETE", !.value = r.val, !.datetime_complete = at,
                   !.outcome = r.outcome]
    ELSE [t EXCEPT !.state = "FAIL", !.datetime_complete = at, !.outcome = r.outcome]

\* After objective: the trial is finished in the store and the thread is free
\* for the next trial; an exception objective raised is re-raised and ends the
\* optimize call.
Tell(w) ==
    /\ wpc[w] = "returned"
    /\ trials' = [trials EXCEPT ![wtrial[w] + 1] = Told(@, wret[w], now)]
    /\ aborted' = (aborted \/ wret[w].kind = "raise")
    /\ wpc' = [wpc EXCEPT ![w] = "idle"]
    /\ wrun' = [wrun EXCEPT ![w] = NoRun]
    /\ wret' = [wret EXCEPT ![w] = NoReturn]
    /\ wtrial' = [wtrial EXCEPT ![w] = -1]
    /\ UNCHANGED <<script, n_trials, n_jobs, now, asked, sw_pc, report,
                   mon_pc, mon_out, mon_event>>
    /\ UNCHANGED objVars

\* study.optimize returns once the budget is used up and every thread is back,
\* or raises what an objective raised.
OptimizeEnds ==
    /\ sw_pc = "optimize"
    /\ \A w \in Workers : wpc[w] = "idle"
    /\ aborted \/ asked = n_trials
    /\ sw_pc' = IF aborted THEN "raised" ELSE "report"
    /\ UNCHANGED <<script, n_trials, n_jobs, trials, now, asked, aborted, wpc, wtrial,
                   wrun, wret, report, mon_pc, mon_out, mon_event>>
    /\ UNCHANGED objVars

(***************************************************************************)
(* objective step by step: the child process, what it starts, the timeout  *)
(* of subprocess.run.                                                      *)
(***************************************************************************)
\* The trial numbers of a run that starts on an empty study.
TrialIds == 0..(MaxTrials - 1)

\* No suggest call made yet for the thread's current trial.
NoParams == [trial |-> -1, species_count |-> -1, low |-> -1, high |-> -1,
             min_species_count |-> -1]

NoProcs == [t \in TrialIds |-> "none"]
NoDeadlines == [t \in TrialIds |-> -1]

\* A child that ended by itself, having printed the fitness 59.95.
ExitedRuns ==
    {r \in ChildRuns : r.end \in {"exit0", "nonzero"}
                        /\ r.lines = << <<"5", "9", ".", "9", "5">> >>}

\* A child subprocess.run killed at the time limit.
TimedOutRun == [end |-> "timeout", lines |-> <<>>, elapsed |-> Timeout(script)]

\* The threads that wait in subprocess.run for their child.
Waiting == {w \in Workers : wpc[w] = "waiting"}

\* The part of the state the process steps leave alone.
stepFrame == <<script, n_trials, n_jobs, asked, aborted, wtrial, wrun, sw_pc, report,
               mon_pc, mon_out, mon_event, mswindows, params>>

\* subprocess.run(args, ..., timeout=...): Popen starts "dotnet run" and
\* communicate(timeout=timeout) starts this call's clock.
Launch(w) ==
    /\ wpc[w] = "running"
    /\ child[wtrial[w]] = "none"
    /\ child' = [child EXCEPT ![wtrial[w]] = "running"]
    /\ deadline' = [deadline EXCEPT ![wtrial[w]] = now + Timeout(script)]
    /\ wpc' = [wpc EXCEPT ![w] = "waiting"]
    /\ UNCHANGED <<stepFrame, trials, now, wret, desc>>

\* "dotnet run" builds the project and starts the trainer as a process of its
\* own, which inherits the pipes.
Spawn(t) ==
    /\ child[t] = "running"
    /\ desc[t] = "none"
    /\ desc' = [desc EXCEPT ![t] = "running"]
    /\ UNCHANGED <<stepFrame, trials, now, wpc, wret, child, deadline>>

\* The trainer ends by itself, whether "dotnet run" is still there or not.
DescExits(t) ==
    /\ desc[t] = "running"
    /\ desc' = [desc EXCEPT ![t] = "exited"]
    /\ UNCHANGED <<stepFrame, trials, now, wpc, wret, child, deadline>>

\* "dotnet run" ends before the time limit (it waits for the trainer it
\* started); objective parses the output and returns.
ChildExits(w) ==
    /\ wpc[w] = "waiting"
    /\ child[wtrial[w]] = "running"
    /\ desc[wtrial[w]] # "running"
    /\ now < deadline[wtrial[w]]
    /\ \E r \in ExitedRuns :
        /\ wret' = [wret EXCEPT ![w] = Objective(r)]
        /\ trials' = [trials EXCEPT ![wtrial[w] + 1].fitness = Objective(r).attr]
    /\ child' = [child EXCEPT ![wtrial[w]] = "exited"]
    /\ wpc' = [wpc EXCEPT ![w] = "returned"]
    /\ UNCHANGED <<stepFrame, now, desc, deadline>>

\* Time passes while a call waits, up to the next time limit of a waiting call.
Tick ==
    LET limits == {deadline[wtrial[w]] : w \in Waiting}
        next == now + TickSeconds
    IN  /\ Waiting # {}
        /\ \A d \in limits : now < d
        /\ now' = IF SetMin(limits) < next THEN SetMin(limits) ELSE next
        /\ UNCHANGED <<stepFrame, trials, wpc, wret, child, desc, deadline>>

\* The time limit of this call passes: subprocess.run kills the process it
\* started (process.kill()), and only that one.
Expire(w) ==
    /\ wpc[w] = "waiting"
    /\ now >= deadline[wtrial[w]]
    /\ child' = [child EXCEPT ![wtrial[w]] = "killed"]
    /\ wpc' = [wpc EXCEPT ![w] = "reaping"]
    /\ UNCHANGED <<stepFrame, trials, now, wret, desc, deadline>>

\* After the kill subprocess.run waits for the killed process (process.wait())
\* or, on Windows, reads the pipes to their end (process.communicate()), which
\* lasts as long as a process holds them open; then TimeoutExpired reaches
\* objective's handler, which returns float('-inf').
Reaped(w) ==
    /\ wpc[w] = "reaping"
    /\ mswindows => desc[wtrial[w]] # "running"
    /\ wret' = [wret EXCEPT ![w] = Objective(TimedOutRun)]
    /\ trials' = [trials EXCEPT ![wtrial[w] + 1].fitness = Objective(TimedOutRun).attr]
    /\ wpc' = [wpc EXCEPT ![w] = "returned"]
    /\ UNCHANGED <<stepFrame, now, child, desc, deadline>>

(***************************************************************************)
(* objective step by step: the suggest calls for the population structure. *)
(***************************************************************************)
\* trial.suggest_int("species_count", 4, 30), or (..., 10, 40) for Rosenbrock.
SpeciesRange(s) == IF s = "evolvion" THEN 4..30 ELSE 10..40

\* The lower bound declared for min_species_count.
MinSpeciesLow(s) == IF s = "evolvion" THEN 2 ELSE 3

\* An upper bound taken from species_count alone, without the max().
MinSpeciesHighNoFloor(s, sc) == sc \div 3

\* The upper bound declared for min_species_count: max(2, species_count // 3),
\* or max(3, species_count // 3) for Rosenbrock.
MinSpeciesHigh(s, sc) ==
    IF s = "evolvion"
    THEN (IF sc \div 3 > 2 THEN sc \div 3 ELSE 2)
    ELSE (IF sc \div 3 > 3 THEN sc \div 3 ELSE 3)

\* The part of the state the suggest calls leave alone.
suggestFrame == <<script, n_trials, n_jobs, trials, now, asked, aborted, wtrial, wrun,
                  sw_pc, report, mon_pc, mon_out, mon_event,
                  mswindows, child, desc, deadline>>

\* species_count = trial.suggest_int("species_count", ...): the first statement
\* of objective.
SuggestSpeciesCount(w) ==
    /\ wpc[w] = "running"
    /\ params[w].species_count = -1
    /\ \E sc \in SpeciesRange(script) :
        params' = [params EXCEPT ![w] = [NoParams EXCEPT !.trial = wtrial[w],
                                                       !.species_count = sc]]
    /\ UNCHANGED <<suggestFrame, wpc, wret>>

\* min_species_count = trial.suggest_int("min_species_count", low, high), its
\* bounds computed from the local species_count. suggest_int raises ValueError
\* when low > high.
SuggestMinSpeciesCount(w) ==
    /\ wpc[w] = "running"
    /\ params[w].species_count # -1
    /\ params[w].min_species_count = -1
    /\ LET low == MinSpeciesLow(script)
           high == MinSpeciesHigh(script, params[w].species_count)
       IN  IF low <= high
           THEN /\ \E v \in low..high :
                     params' = [params EXCEPT ![w].low = low, ![w].high = high,
                                              ![w].min_species_count = v]
                /\ UNCHANGED <<wpc, wret>>
           ELSE /\ params' = [params EXCEPT ![w].low = low, ![w].high = high]
                /\ wret' = [wret EXCEPT ![w] = Raised("ValueError")]
                /\ wpc' = [wpc EXCEPT ![w] = "returned"]
    /\ UNCHANGED suggestFrame

\* The rest of objective once the parameters are sampled: they go into the
\* child's command line, the child runs, objective returns.
EvaluateSampled(w) ==
    /\ params[w].min_species_count # -1
    /\ Run(w)
    /\ params' = [params EXCEPT ![w] = NoParams]
    /\ UNCHANGED <<mswindows, child, desc, deadline>>

(***************************************************************************)
(* Specifications.                                                         *)
(***************************************************************************)
Init ==
    /\ script \in Scripts
    /\ n_trials \in 1..MaxTrials
    /\ n_jobs \in JobChoices
    /\ \E n \in {0, PriorTrials} : trials = PriorStore(n) /\ now = 1000 * n
    /\ asked = 0
    /\ aborted = FALSE
    /\ wpc = [w \in Workers |-> "idle"]
    /\ wtrial = [w \in Workers |-> -1]
    /\ wrun = [w \in Workers |-> NoRun]
    /\ wret = [w \in Workers |-> NoReturn]
    /\ sw_pc = "optimize"
    /\ report = NoReport
    /\ mon_pc = "poll"
    /\ mon_out = NoSummary
    /\ mon_event = "wake"
    /\ mswindows = FALSE
    /\ child = NoProcs
    /\ desc = NoProcs
    /\ deadline = NoDeadlines
    /\ params = [w \in Workers |-> NoParams]

NextSweep ==
    \/ \E w \in Workers : Ask(w)
    \/ \E w \in Workers : Evaluate(w)
    \/ \E w \in Workers : Tell(w)
    \/ OptimizeEnds
    \/ Report

NextMonitor ==
    \/ MonitorLoadError
    \/ MonitorPoll
    \/ MonitorWake
    \/ MonitorInterrupt

Next == NextSweep \/ NextMonitor

Spec == Init /\ [][Next]_vars

\* A run on an empty study, with one or two threads, followed process by process.
InitTimeout ==
    /\ script \in Scripts
    /\ n_trials = MaxTrials
    /\ n_jobs \in Workers
    /\ trials = <<>>
    /\ now = 0
    /\ asked = 0
    /\ aborted = FALSE
    /\ wpc = [w \in Workers |-> "idle"]
    /\ wtrial = [w \in Workers |-> -1]
    /\ wrun = [w \in Workers |-> NoRun]
    /\ wret = [w \in Workers |-> NoReturn]
    /\ sw_pc = "optimize"
    /\ report = NoReport
    /\ mon_pc = "poll"
    /\ mon_out = NoSummary
    /\ mon_event = "wake"
    /\ mswindows \in BOOLEAN
    /\ child = NoProcs
    /\ desc = NoProcs
    /\ deadline = NoDeadlines
    /\ params = [w \in Workers |-> NoParams]

NextTimeout ==
    \/ \E w \in Workers : Ask(w)
    \/ \E w \in Workers : Launch(w)
    \/ \E t \in TrialIds : Spawn(t)
    \/ \E t \in TrialIds : DescExits(t)
    \/ \E w \in Workers : ChildExits(w)
    \/ Tick
    \/ \E w \in Workers : Expire(w)
    \/ \E w \in Workers : Reaped(w)
    \/ \E w \in Workers : Tell(w)
    \/ OptimizeEnds

SpecTimeout == InitTimeout /\ [][NextTimeout]_vars

\* A run on an empty study with one thread, followed suggest call by suggest call.
InitSampling ==
    /\ script \in Scripts
    /\ n_trials \in 1..MaxTrials
    /\ n_jobs = 1
    /\ trials = <<>>
    /\ now = 0
    /\ asked = 0
    /\ aborted = FALSE
    /\ wpc = [w \in Workers |-> "idle"]
    /\ wtrial = [w \in Workers |-> -1]
    /\ wrun = [w \in Workers |-> NoRun]
    /\ wret = [w \in Workers |-> NoReturn]
    /\ sw_pc = "optimize"
    /\ report = NoReport
    /\ mon_pc = "poll"
    /\ mon_out = NoSummary
    /\ mon_event = "wake"
    /\ mswindows = FALSE
    /\ child = NoProcs
    /\ desc = NoProcs
    /\ deadline = NoDeadlines
    /\ params = [w \in Workers |-> NoParams]

NextSampling ==
    \/ \E w \in Workers : Ask(w)
    \/ \E w \in Workers : SuggestSpeciesCount(w)
    \/ \E w \in Workers : SuggestMinSpeciesCount(w)
    \/ \E w \in Workers : EvaluateSampled(w)
    \/ \E w \in Workers : Tell(w)
    \/ OptimizeEnds

SpecSampling == InitSampling /\ [][NextSampling]_vars

(***************************************************************************)
(* The fitness encoding the Rosenbrock trainer prints.                     *)
(***************************************************************************)
\* objective's docstring: solve rate (0-100) + avg fitness, e.g. 60 + (-0.05) = 59.95.
\* sec is in hundredths.
Encode(pct, sec) == Fin(100 * pct + sec)

(***************************************************************************)
(* Properties.                                                             *)
(***************************************************************************)
Line5995 == <<"5", "9", ".", "9", "5">>
LineM037 == <<"-", "0", ".", "3", "7">>

Failures == {"Timeout", "ProcessError", "ParseError"}
FourOutcomes == Failures \cup {"Success"}

\* The number a line of OutputLines reads as, None if it reads as no number.
LineMeaning(line) ==
    CASE line = Line5995 -> Fin(5995)
      [] line = LineM037 -> Fin(-37)
      [] line = <<"n", "a", "n">> -> NaN
      [] line = <<"i", "n", "f">> -> PosInf
      [] OTHER -> None

\* The trial a thread evaluates, as the store holds it.
TrialOf(w) == trials[wtrial[w] + 1]

\* C1: when the child exceeded its time budget, objective returns the failure
\* outcome Timeout with fitness -inf, whatever the child had written so far, and
\* sets no 'fitness' attribute on the trial.
C1_TimeoutReturnsNegInf ==
    \A w \in Workers :
        (wpc[w] = "returned" /\ wrun[w].end = "timeout") =>
            /\ wret[w].kind = "float"
            /\ wret[w].outcome = "Timeout"
            /\ wret[w].val = NegInf
            /\ wret[w].attr = None
            /\ TrialOf(w).fitness = None

\* A Rosenbrock child is killed at 1200 s after it had printed 59.95 as its last
\* line; objective has returned -inf.
C1_Witness ==
    \E w \in Workers :
        /\ wpc[w] = "returned"
        /\ wrun[w].end = "timeout"
        /\ wrun[w].last = Line5995
        /\ script = "rosenbrock"
        /\ now - TrialOf(w).datetime_start = 1200
        /\ wret[w].val = NegInf

\* C2: when the child exited with a non-zero status, the outcome is ProcessError
\* and the fitness -inf, also when its output ends with a line that is a number.
C2_NonZeroExitIsProcessError ==
    \A w \in Workers :
        (wpc[w] = "returned" /\ wrun[w].end = "nonzero") =>
            /\ wret[w].kind = "float"
            /\ wret[w].outcome = "ProcessError"
            /\ wret[w].val = NegInf
            /\ wret[w].attr = None

\* A child exits non-zero after printing 59.95 as its last line.
C2_Witness ==
    \E w \in Workers :
        /\ wpc[w] = "returned"
        /\ wrun[w].end = "nonzero"
        /\ wrun[w].last = Line5995
        /\ wret[w].outcome = "ProcessError"

\* C3: whichever of Timeout, ProcessError, ParseError, Success an evaluation ends
\* in, objective returns a float (-inf for the three failures) and raises nothing;
\* such a trial never makes study.optimize give up; a failed trial is recorded
\* (completed with -inf) and not run again, and a run that was not given up used
\* exactly n_trials trials, the failed ones among them.
C3_FailuresNeverAbort ==
    /\ \A w \in Workers :
        (wpc[w] = "returned" /\ wrun[w].end \in {"timeout", "nonzero", "exit0"}) =>
            /\ wret[w].kind = "float"
            /\ wret[w].outcome \in FourOutcomes
            /\ wret[w].outcome \in Failures => wret[w].val = NegInf
    /\ aborted => \E i \in 1..Len(trials) : trials[i].outcome \notin FourOutcomes \cup {"none"}
    /\ \A i \in 1..Len(trials) :
        /\ trials[i].number = i - 1
        /\ trials[i].outcome \in Failures =>
              trials[i].state = "COMPLETE" /\ trials[i].value = NegInf
    /\ (sw_pc # "optimize" /\ ~aborted) =>
        /\ asked = n_trials
        /\ Len(trials) \in {n_trials, PriorTrials + n_trials}
        /\ \A i \in 1..Len(trials) : trials[i].state # "RUNNING"

\* A fresh study of two trials ran to its report: the first trial timed out, the
\* second one was evaluated after it and succeeded.
C3_Witness ==
    /\ sw_pc = "done"
    /\ n_trials = 2
    /\ Len(trials) = 2
    /\ trials[1].outcome = "Timeout"
    /\ trials[2].outcome = "Success"
    /\ trials[2].datetime_start >= trials[1].datetime_complete

\* C4: when the child exited with status zero in time, objective reads the last
\* non-blank line of its output, whatever precedes it and whatever blank lines
\* follow it: if that line is a number the outcome is Success with exactly that
\* value (also set as the 'fitness' attribute), otherwise (no number, or no
\* non-blank line at all) the outcome is ParseError with -inf.
C4_LastLineDecides ==
    \A w \in Workers :
        (wpc[w] = "returned" /\ wrun[w].end = "exit0") =>
            IF LineMeaning(wrun[w].last) # None
            THEN wret[w] = Returned(LineMeaning(wrun[w].last), "Success",
                                     LineMeaning(wrun[w].last))
            ELSE wret[w] = Returned(NegInf, "ParseError", None)

\* A child printed something, then -0.37, then a blank line, and exited zero.
C4_Witness ==
    \E w \in Workers :
        /\ wpc[w] = "returned"
        /\ wrun[w].end = "exit0"
        /\ wrun[w].last = LineM037
        /\ wrun[w].led /\ wrun[w].trailed
        /\ wret[w].val = Fin(-37)
        /\ wret[w].outcome = "Success"

\* The decode of section "FitnessCodec": a positive value splits into its floor
\* and the rest; any other value is all secondary.
SpecDecode(v) ==
    IF v.k = "fin" /\ v.c > 0
    THEN [sr |-> v.c \div 100, af |-> Fin(v.c % 100)]
    ELSE [sr |-> 0, af |-> v]

\* C5: for every pct in [0,100] and secondary in (-1,1), decoding the value
\* pct + secondary gives back (pct, secondary): whenever the monitor or the
\* Rosenbrock report decodes a best value, every such pair that encodes to that
\* value is the pair it prints.
C5_DecodeInvertsEncode ==
    \A pct \in 0..100 :
        /\ (mon_out.printed /\ mon_out.has_best /\ mon_out.best_value.k = "fin") =>
              LET sec == mon_out.best_value.c - 100 * pct
              IN  (sec \in -99..99 /\ mon_out.best_value = Encode(pct, sec)) =>
                      (mon_out.solve_rate = pct /\ mon_out.avg_fitness = Fin(sec))
        /\ (report.decoded /\ report.best_value.k = "fin") =>
              LET sec == report.best_value.c - 100 * pct
              IN  (sec \in -99..99 /\ report.best_value = Encode(pct, sec)) =>
                      (report.solve_rate = pct /\ report.avg_fitness = Fin(sec))

\* The decodes of 0.0, -0.37, 59.95 and 60.0 at the four sites.
DecodeExamples ==
    /\ \A v \in {Fin(0), Fin(-37), Fin(5995), Fin(6000)} :
        /\ MonitorBestDecode(v) = Decoded(v, SpecDecode(v).sr)
        /\ MonitorTopDecode(v) = Decoded(v, SpecDecode(v).sr)
        /\ ReportBestDecode(v) = Decoded(v, SpecDecode(v).sr)
        /\ ReportTopDecode(v) = Decoded(v, SpecDecode(v).sr)
        /\ Decoded(v, SpecDecode(v).sr).af = SpecDecode(v).af
    /\ MonitorBestDecode(Fin(0)) = [ok |-> TRUE, sr |-> 0, af |-> Fin(0)]
    /\ MonitorTopDecode(Fin(-37)) = [ok |-> TRUE, sr |-> 0, af |-> Fin(-37)]
    /\ ReportBestDecode(Fin(5995)) = [ok |-> TRUE, sr |-> 59, af |-> Fin(95)]
    /\ ReportTopDecode(Fin(6000)) = [ok |-> TRUE, sr |-> 60, af |-> Fin(0)]

\* C6: the four decode sites compute SpecDecode: on every value the monitor
\* printed a decode of (best trial, top 5) and on every value the Rosenbrock
\* report did (best trial, top 10), and on 0.0, -0.37, 59.95 and the integer
\* boundary 60.0.
C6_DecodeSitesAgree ==
    /\ (mon_out.printed /\ mon_out.has_best) =>
        /\ mon_out.solve_rate = SpecDecode(mon_out.best_value).sr
        /\ mon_out.avg_fitness = SpecDecode(mon_out.best_value).af
        /\ \A i \in 1..Len(mon_out.top) :
            /\ mon_out.top[i].sr = SpecDecode(mon_out.top[i].value).sr
            /\ mon_out.top[i].af = SpecDecode(mon_out.top[i].value).af
    /\ report.decoded =>
        /\ report.solve_rate = SpecDecode(report.best_value).sr
        /\ report.avg_fitness = SpecDecode(report.best_value).af
        /\ \A i \in 1..Len(report.top) :
            /\ report.top[i].sr = SpecDecode(report.top[i].value).sr
            /\ report.top[i].af = SpecDecode(report.top[i].value).af
    /\ DecodeExamples

\* The monitor printed 59.95 as best value, decoded to 59% and 0.95, with -0.37
\* in its top list decoded to 0% and -0.37, and the Rosenbrock report decoded
\* 59.95 too.
C6_Witness ==
    /\ mon_out.printed
    /\ mon_out.best_value = Fin(5995)
    /\ mon_out.solve_rate = 59
    /\ mon_out.avg_fitness = Fin(95)
    /\ \E i \in 1..Len(mon_out.top) :
        mon_out.top[i].value = Fin(-37) /\ mon_out.top[i].sr = 0 /\ mon_out.top[i].af = Fin(-37)
    /\ report.decoded
    /\ report.best_value = Fin(5995)
    /\ report.solve_rate = 59
    /\ \E i \in 1..Len(report.top) :
        report.top[i].value = Fin(-37) /\ report.top[i].af = Fin(-37)

\* The numbers of the trials of a summary's snapshot with an outcome in kinds
\* whose objective's own result (when Success) was not nan unless nan_too.
SnapNumbers(s, kinds, nan_too) ==
    {s.snap[i].number : i \in {j \in 1..Len(s.snap) :
        /\ s.snap[j].outcome \in kinds
        /\ (s.snap[j].outcome = "Success" /\ ~nan_too) => s.snap[j].fitness.k # "nan"}}

\* C7 as claimed: in every summary the completed trials are exactly the trials
\* whose outcome is Success.
C7_CompletedIsSuccessOnly ==
    mon_out.printed =>
        Elems(mon_out.completed) = SnapNumbers(mon_out, {"Success"}, TRUE)

\* C7 as amended: in every summary the completed trials are exactly the trials
\* whose objective returned a float other than nan, that is the Success trials
\* with such a value and the trials that timed out, exited non-zero or failed to
\* parse (all recorded with -inf); a trial in flight, or one whose objective
\* returned nan or raised, is not among them. Best trial, top 5 and ETA are taken
\* from these completed trials.
C7_CompletedIsReturnedFloat ==
    mon_out.printed =>
        /\ Elems(mon_out.completed) =
              SnapNumbers(mon_out, Failures \cup {"Success"}, FALSE)
        /\ \A i \in 1..Len(mon_out.snap) :
              mon_out.snap[i].state = "RUNNING" => mon_out.snap[i].number \notin Elems(mon_out.completed)
        /\ \A i \in 1..Len(mon_out.snap) :
              (mon_out.snap[i].outcome \in Failures) => mon_out.snap[i].value = NegInf
        /\ mon_out.has_best = (mon_out.completed # <<>>)
        /\ mon_out.has_best => mon_out.best_number \in Elems(mon_out.completed)
        /\ \A i \in 1..Len(mon_out.top) : mon_out.top[i].number \in Elems(mon_out.completed)

\* A summary of a fresh study: trial 0 timed out and is counted as completed
\* (it is the best trial, with -inf), trial 1 is in flight and is not.
C7_Witness ==
    /\ mon_out.printed
    /\ Len(mon_out.snap) = 2
    /\ mon_out.snap[1].outcome = "Timeout"
    /\ mon_out.snap[2].state = "RUNNING"
    /\ mon_out.completed = <<0>>
    /\ mon_out.best_value = NegInf
    /\ mon_out.n_running = 1

\* Value a is at least value b.
Ge(a, b) == ~Gt(b, a)

\* The trial with number n in a summary's snapshot.
SnapTrial(s, n) == s.snap[n + 1]

\* The top list of summary s is its completed trials by value descending, equal
\* values by number ascending, cut after MONITOR_TOP entries.
TopIsRanking(s) ==
    LET n == Len(s.completed)
        k == IF n < MONITOR_TOP THEN n ELSE MONITOR_TOP
        listed == {s.top[i].number : i \in 1..Len(s.top)}
    IN  /\ Len(s.top) = k
        /\ listed \subseteq Elems(s.completed)
        /\ Cardinality(listed) = k
        /\ \A i \in 1..k : s.top[i].value = SnapTrial(s, s.top[i].number).value
        /\ \A i \in 1..(k - 1) :
              \/ Gt(s.top[i].value, s.top[i + 1].value)
              \/ s.top[i].value = s.top[i + 1].value /\ s.top[i].number < s.top[i + 1].number
        /\ \A m \in Elems(s.completed) \ listed :
              \/ Gt(s.top[k].value, SnapTrial(s, m).value)
              \/ s.top[k].value = SnapTrial(s, m).value /\ s.top[k].number < m

\* The best trial of summary s is a completed trial no completed trial exceeds.
BestIsMaximal(s) ==
    /\ s.best_number \in Elems(s.completed)
    /\ s.best_value = SnapTrial(s, s.best_number).value
    /\ \A m \in Elems(s.completed) : Ge(s.best_value, SnapTrial(s, m).value)

\* The example of section 8: values 10, 55.2, 3, 55.2, 90 at indices 0..4.
ExampleRanking ==
    LET top3 == Take(SortedByValue(PriorStore(5)), 3)
    IN  /\ [i \in 1..3 |-> top3[i].number] = <<4, 1, 3>>
        /\ BestTrials(PriorStore(5)) = {PriorTrial(4)}

\* C8 as claimed: the best trial is the completed trial with maximal value, the
\* lowest-numbered one of them when several share it, and the top list is the
\* ranking described above.
C8_BestTieLowestIndex ==
    (mon_out.printed /\ mon_out.has_best) =>
        /\ BestIsMaximal(mon_out)
        /\ \A m \in Elems(mon_out.completed) :
              SnapTrial(mon_out, m).value = mon_out.best_value => mon_out.best_number <= m
        /\ TopIsRanking(mon_out)

\* C8 as amended: the best trial is a completed trial with maximal value (which
\* one, when several share it, is what the trial store returns); the top list is
\* the completed trials by value descending, equal values in ascending trial
\* number, cut to 5; and values 10, 55.2, 3, 55.2, 90 give best 4 and top-3 4, 1, 3.
C8_BestMaximalTopStable ==
    /\ (mon_out.printed /\ mon_out.has_best) =>
          (BestIsMaximal(mon_out) /\ TopIsRanking(mon_out))
    /\ ExampleRanking

\* A summary that lists 5 of more than 5 completed trials, with two equal values
\* next to each other in ascending trial number.
C8_Witness ==
    /\ mon_out.printed
    /\ Len(mon_out.completed) > MONITOR_TOP
    /\ Len(mon_out.top) = MONITOR_TOP
    /\ \E i \in 1..(MONITOR_TOP - 1) :
          /\ mon_out.top[i].value = mon_out.top[i + 1].value
          /\ mon_out.top[i].number < mon_out.top[i + 1].number

\* The duration of the trial with number n in a summary's snapshot.
SnapDuration(s, n) == SnapTrial(s, n).datetime_complete - SnapTrial(s, n).datetime_start

\* The sum of the durations of the last m completed trials of summary s.
RECURSIVE LastDurations(_, _)
LastDurations(s, m) ==
    IF m = 0 THEN 0
    ELSE SnapDuration(s, s.completed[Len(s.completed) - m + 1]) + LastDurations(s, m - 1)

\* The ETA of summary s is defined from the 2nd completed trial on and is then
\* (target - count) times the mean duration of the last min(10, count) completed
\* trials: eta_num / eta_den = (target - count) * sum / m.
EtaIsFor(s, target) ==
    LET count == Len(s.completed)
        m == IF count < MONITOR_WINDOW THEN count ELSE MONITOR_WINDOW
    IN  /\ s.eta.defined = (count >= 2)
        /\ s.eta.defined =>
              /\ s.eta.n = m
              /\ s.eta.sum = LastDurations(s, m)
              /\ s.eta.remaining = target - count
              /\ s.eta.eta_num * m = (target - count) * LastDurations(s, m) * s.eta.eta_den

\* C9: in every summary the monitor prints, the ETA is absent below 2 completed
\* trials, defined from the 2nd on, and is (target_total - count) times the mean
\* duration of the last min(10, count) completed trials, target_total being the
\* number of trials the study is to run (this run's n_trials, counted with or
\* without the trials the study started with).
C9_EtaUsesStudyTarget ==
    mon_out.printed =>
        \E prior \in {0, PriorTrials} : EtaIsFor(mon_out, prior + n_trials)

\* One step of the monitor, as C10 allows it.
C10_Step ==
    /\ (mon_pc = "poll" /\ mon_event' = "error") => mon_pc' = "sleep_err"
    /\ (mon_pc = "sleep_err" /\ mon_pc' # mon_pc) =>
          \/ mon_pc' = "poll" /\ mon_event' = "retry"
          \/ mon_event' = "interrupt"
    /\ (mon_pc' \in {"stopped", "killed"} /\ mon_pc \notin {"stopped", "killed"}) =>
          mon_event' = "interrupt"
    /\ (mon_pc \in {"stopped", "killed"}) => (mon_pc' = mon_pc /\ mon_event' = mon_event)
    /\ (mon_pc' # mon_pc \/ mon_event' # mon_event \/ mon_out' # mon_out) => trials' = trials

\* C10: a pass of the monitor that raises (loading the study or printing the
\* summary) is logged and followed by one sleep and the next poll; the loop is
\* left only by a KeyboardInterrupt; and no step of the monitor changes the
\* trial store.
C10_MonitorKeepsPolling == [][C10_Step]_vars

\* The monitor polls again after a pass that raised.
C10_Witness == mon_pc = "poll" /\ mon_event = "retry"

\* The trial thread w evaluates.
Timed(w) == wtrial[w]

\* One step, as C11 allows it.
C11_Step ==
    \A w \in Workers :
        /\ (wret'[w].outcome = "Timeout" /\ wret[w].outcome # "Timeout") =>
              /\ child'[Timed(w)] \in {"exited", "killed"}
              /\ desc'[Timed(w)] # "running"
        /\ (wpc[w] = "waiting" /\ wpc'[w] # "waiting" /\ now >= deadline[Timed(w)]) =>
              \A t \in TrialIds \ {Timed(w)} :
                  /\ child'[t] = child[t]
                  /\ desc'[t] = desc[t]
                  /\ deadline'[t] = deadline[t]

\* C11: when objective returns the Timeout sentinel, the child process of its
\* trial and the process that child started are terminated, none is running;
\* and the step that ends a call at its time limit changes no process and no
\* time limit of another trial.
C11_TimeoutReapsProcessTree == [][C11_Step]_vars

\* The larger of two numbers.
Larger(a, b) == IF a > b THEN a ELSE b

\* The bounds of the claim for species_count sc: 2 and max(2, sc // 3), or 3 and
\* max(3, sc // 3) for Rosenbrock.
ClaimedLow(s) == IF s = "evolvion" THEN 2 ELSE 3
ClaimedHigh(s, sc) == Larger(ClaimedLow(s), sc \div 3)

\* For every species_count of the declared range the declared range of
\* min_species_count is the claimed one and is not empty; species_count = 6
\* gives the upper bound 2.
BoundsNeverEmpty ==
    /\ \A s \in Scripts : \A sc \in SpeciesRange(s) :
          /\ MinSpeciesLow(s) = ClaimedLow(s)
          /\ MinSpeciesHigh(s, sc) = ClaimedHigh(s, sc)
          /\ MinSpeciesLow(s) <= MinSpeciesHigh(s, sc)
    /\ MinSpeciesHigh("evolvion", 6) = 2

\* C12: in every trial min_species_count is sampled only when species_count has
\* been sampled in that same trial; the bounds declared for it are 2 (3 for
\* Rosenbrock) and max(2, species_count // 3) (max(3, species_count // 3)) of
\* that sampled species_count, so species_count = 6 declares the upper bound 2;
\* the declared range is never empty, the value lies in it, and the suggest call
\* never raises.
C12_MinSpeciesAfterSpecies ==
    /\ \A w \in Workers :
          /\ (params[w].high # -1 \/ params[w].min_species_count # -1) =>
                /\ params[w].trial = wtrial[w]
                /\ params[w].species_count \in SpeciesRange(script)
                /\ params[w].low = ClaimedLow(script)
                /\ params[w].high = ClaimedHigh(script, params[w].species_count)
                /\ params[w].low <= params[w].high
                /\ params[w].min_species_count \in params[w].low..params[w].high
          /\ wret[w].outcome # "ValueError"
    /\ BoundsNeverEmpty

\* The example: the second trial of optuna_sweep.py sampled species_count = 6
\* and then min_species_count = 2 from the declared range 2..2.
C12_Witness ==
    /\ script = "evolvion"
    /\ \E w \in Workers :
          /\ wtrial[w] = 1
          /\ params[w].trial = 1
          /\ params[w].species_count = 6
          /\ params[w].low = 2
          /\ params[w].high = 2
          /\ params[w].min_species_count = 2

====
